---- MODULE Spec2Model ----
(***************************************************************************)
(* Model of the Midea M-Control polling coordinator                        *)
(* (custom_components/midea_mcontrol): the coordinator's state, the setup  *)
(* transition with the address reconciliation, the periodic update tick    *)
(* (cooldown / local / cloud / fallback) and the climate entity's control  *)
(* command.  Device records are Python dicts and are modelled as functions *)
(* from field names to strings; awaits are the only suspension points and  *)
(* every stretch of code between two awaits is one action.                 *)
(* Three parts of the integration are also run on their own, on the same   *)
(* state: the cloud client's call with its re-login (SpecApi), the address *)
(* reconciliation (SpecReconcile) and the status decoder with the          *)
(* conversion to the cloud's fields (SpecDecode).  SpecLive is the         *)
(* coordinator with its update timer firing for ever, under fairness.      *)
(***************************************************************************)
EXTENDS Integers, Sequences, FiniteSets, TLC

\* ------------------------------------------------------------------------
\* Bounds of the model
\* ------------------------------------------------------------------------
MaxTime == 16
MaxOps == 3
MaxInFlight == 1
MaxCalls == 3
MaxUnits == 3

\* ------------------------------------------------------------------------
\* Program constants (const.py, coordinator.py)
\* ------------------------------------------------------------------------
COMMAND_COOLDOWN_SECONDS == 15
SESSION_EXPIRED_CODE == 40018
HTTP_OK == 200
LOCAL_MODE_COOL == 0
LOCAL_MODE_HEAT == 1
LOCAL_MODE_DRY == 2
LOCAL_MODE_FAN == 3
LOCAL_MODE_OFF == 4
LOCAL_MODE_AUTO == 5
LOCAL_FAN_AUTO == 0
LOCAL_FAN_LOW == 2
LOCAL_FAN_MEDIUM == 3
LOCAL_FAN_HIGH == 4
LOCAL_FAN_OFF == 5
MODE_COOL == "cool"
MODE_HEAT == "heat"
MODE_AUTO == "auto"
MODE_FAN == "fan"
MODE_DRY == "dry"
WIND_AUTO == "auto"
WIND_LOW == "low"
WIND_MID == "mid"
WIND_HIGH == "high"
POWER_ON == "y"
POWER_OFF == "n"

\* ------------------------------------------------------------------------
\* Python dict helpers
\* ------------------------------------------------------------------------
\* {} : the empty dict
EmptyDict == <<>>

\* d.update(u) on a copy of d: the keys of u win
Update(d, u) ==
    [k \in (DOMAIN d) \cup (DOMAIN u) |-> IF k \in DOMAIN u THEN u[k] ELSE d[k]]

\* d with d[k] = v assigned
Assign(d, k, v) ==
    [j \in (DOMAIN d) \cup {k} |-> IF j = k THEN v ELSE d[j]]

\* d.pop(k, None)
Pop(d, k) == [j \in (DOMAIN d) \ {k} |-> d[j]]

\* d.get(k, default)
Get(d, k, default) == IF k \in DOMAIN d THEN d[k] ELSE default

\* str(n) for a Python int: decimal digits, with a leading minus sign
Digit(n) ==
    CASE n = 0 -> "0" [] n = 1 -> "1" [] n = 2 -> "2" [] n = 3 -> "3"
      [] n = 4 -> "4" [] n = 5 -> "5" [] n = 6 -> "6" [] n = 7 -> "7"
      [] n = 8 -> "8" [] OTHER -> "9"

RECURSIVE StrNat(_)
StrNat(n) == IF n < 10 THEN Digit(n) ELSE StrNat(n \div 10) \o Digit(n % 10)

Str(n) == IF n < 0 THEN "-" \o StrNat(0 - n) ELSE StrNat(n)

\* ------------------------------------------------------------------------
\* The inputs of the model: what the two transports and the user can send
\* ------------------------------------------------------------------------
\* cloud identifiers of the account
Ids == {"A", "B"}

\* the devices whose entity is sent commands and override calls
CommandedIds == {"A"}

\* the display name the cloud reports for a device (a pass-through field)
NameOf(id) == "AC-" \o id

\* the running values the cloud may report for a device: either reading
\* for device A, the second one for the other devices
CloudReadings(id) ==
    { r \in { [power |-> POWER_ON, mode |-> MODE_AUTO, wind |-> WIND_LOW,
               setTemp |-> "22", factTemp |-> "24", swing |-> "0"],
              [power |-> POWER_ON, mode |-> MODE_COOL, wind |-> WIND_AUTO,
               setTemp |-> "25", factTemp |-> "26", swing |-> "1"] } :
        id = "A" \/ r.mode = MODE_COOL }

\* a device dict of the cloud's device list; one entry carries no "id"
CloudRecords ==
    UNION { { Update([id |-> i, name |-> NameOf(i)], r) : r \in CloudReadings(i) } :
            i \in Ids }
    \cup { [name |-> "AC-noid", power |-> POWER_OFF] }

\* sequences over S of length at most n
SeqsUpTo(S, n) == UNION { [1..k -> S] : k \in 0..n }

\* the device lists of the cloud: as many records as there are devices at
\* most, in any order, no record and no identifier twice
CloudLists ==
    { l \in SeqsUpTo(CloudRecords, Cardinality(Ids)) :
        \A i, j \in DOMAIN l :
            i # j => /\ l[i] # l[j]
                     /\ Get(l[i], "id", "i") # Get(l[j], "id", "j") }

\* outcome of AirControlBaseApi.get_devices
CloudResponses ==
    { [ok |-> TRUE, devices |-> l] : l \in CloudLists }
    \cup { [ok |-> FALSE, devices |-> <<>>] }

\* local addresses of the gateway
Addrs == 1..2

\* the decoded readings the gateway may report for one unit
LocalReadings ==
    { [ac_mode |-> LOCAL_MODE_AUTO, fan_mode |-> LOCAL_FAN_LOW,
       temperature |-> 24, temperature_setpoint |-> 22, is_swing_on |-> TRUE],
      [ac_mode |-> LOCAL_MODE_OFF, fan_mode |-> LOCAL_FAN_OFF,
       temperature |-> 26, temperature_setpoint |-> 25, is_swing_on |-> FALSE] }

\* a LocalDeviceState as parse_hex_status builds it (is_on from the mode)
LocalDeviceState(a, r) ==
    [addr |-> a, ac_mode |-> r.ac_mode, fan_mode |-> r.fan_mode,
     temperature |-> r.temperature,
     temperature_setpoint |-> r.temperature_setpoint,
     is_swing_on |-> r.is_swing_on, error_code |-> 0,
     is_on |-> (r.ac_mode # LOCAL_MODE_OFF)]

LocalStates == { LocalDeviceState(a, r) : a \in Addrs, r \in LocalReadings }

\* the state lists of the gateway: one state per address at most, in any
\* order
LocalLists ==
    { l \in SeqsUpTo(LocalStates, Cardinality(Addrs)) :
        \A i, j \in DOMAIN l : i # j => l[i].addr # l[j].addr }

\* what the HTTP exchange of LocalApi.get_status can end in
LocalResponses ==
    { [kind |-> "ok", states |-> l] : l \in LocalLists }
    \cup { [kind |-> k, states |-> <<>>] :
              k \in {"http_status", "client_error", "timeout", "bad_body"} }

\* the keyword arguments the entity's service methods pass to _send_control
CommandOverrides ==
    { [power |-> POWER_OFF],
      [power |-> POWER_ON, mode |-> MODE_HEAT],
      [wind |-> WIND_HIGH] }

\* the keyword arguments a caller may pass to set_ha_override
OverrideFields ==
    { [mode |-> MODE_DRY], [wind |-> WIND_MID, swing |-> "1"] }

\* the monotonic clock advances in steps that put a tick 14 s and 15 s
\* after a command, on either side of the cooldown's end
TimeSteps == {14, 15}

\* ------------------------------------------------------------------------
\* State
\* ------------------------------------------------------------------------
VARIABLES
    phase,              \* "uninit", "ready" or "failed" (async_setup_entry)
    local_api,          \* TRUE iff a local host is configured (_local_api)
    id_to_addr,         \* _id_to_addr : cloud id -> local addr
    cloud_device_cache, \* _cloud_device_cache : cloud id -> device dict
    ha_overrides,       \* _ha_overrides : cloud id -> {mode, wind} dict
    last_command_time,  \* _last_command_time (0 : no command yet)
    data,               \* coordinator.data, the published snapshot
    last_device_data,   \* the climate entities' _last_device_data, by id
    now,                \* time.monotonic()
    tick,               \* the update in flight: [pc, fallback, seen]
    inflight,           \* _send_control calls awaiting control_device
    budget,             \* number of ticks, commands and override calls started
    hist,               \* history of the commands: [last_cmd, mode, during,
                        \* written, raced]
    act,                \* the step taken last: [op, id, ov, state, fetched]
    api,                \* the cloud client: its session and the call in progress
    call                \* a call of a pure function: [fn, arg, result]

vars == <<phase, local_api, id_to_addr, cloud_device_cache, ha_overrides,
          last_command_time, data, last_device_data, now, tick, inflight,
          budget, hist, act, api, call>>

\* op: the action; id: the device commanded or the kind of response consumed;
\* ov: the keyword arguments of a command; state: the dict a command sent;
\* fetched: what the fetch of a poll returned, by address or by identifier,
\* and at setup the two lists fetched: [devices, states]
Act(op, id, ov) ==
    [op |-> op, id |-> id, ov |-> ov, state |-> EmptyDict, fetched |-> EmptyDict]

\* pc: where the update is suspended; fallback: the local fetch raised in this
\* tick; seen: the modes commanded before the tick started (history)
IdleTick == [pc |-> "idle", fallback |-> FALSE, seen |-> EmptyDict]

\* last_cmd: the time of the last cooldown write; mode: the mode last
\* commanded, by device; during: the sends in flight whose cooldown write
\* was made while the poll now in flight was in flight; written: the devices
\* such a send has written optimistically since; raced: the devices whose
\* optimistic entry the poll then replaced
NoHistory ==
    [last_cmd |-> 0 - 1, mode |-> EmptyDict, during |-> {}, written |-> {},
     raced |-> {}]

\* the history when the poll in flight ends
EndOfPoll(h, raced) == [h EXCEPT !.during = {}, !.written = {}, !.raced = raced]

\* the devices whose optimistic entry a poll that publishes new replaces
Raced(h, old, new) ==
    { d \in h.written \cap (DOMAIN new) : d \in DOMAIN old /\ new[d] # old[d] }

\* AirControlBaseApi.__init__: no user id, no cookie, no call in progress
ApiIdle ==
    [user_id |-> FALSE, cookie |-> FALSE, pc |-> "idle", retry_on_expired |-> TRUE,
     requests |-> 0, logins |-> 0, relogins |-> 0, outcome |-> "none", calls |-> 0]

\* no pure function has been called
NoCall == [fn |-> "none", arg |-> <<>>, result |-> <<>>]

Init ==
    /\ phase = "uninit"
    /\ local_api \in BOOLEAN
    /\ id_to_addr = EmptyDict
    /\ cloud_device_cache = EmptyDict
    /\ ha_overrides = EmptyDict
    /\ last_command_time = 0
    /\ data = EmptyDict
    /\ last_device_data = EmptyDict
    /\ now = 1
    /\ tick = IdleTick
    /\ inflight = {}
    /\ budget = 0
    /\ hist = NoHistory
    /\ act = Act("init", "", EmptyDict)
    /\ api = ApiIdle
    /\ call = NoCall

\* ------------------------------------------------------------------------
\* aircontrolbase.py : the local transport
\* ------------------------------------------------------------------------
\* the value None of a dict lookup, kept apart from every field value
None == "None"

LOCAL_MODE_TO_CLOUD ==
    [m \in {LOCAL_MODE_COOL, LOCAL_MODE_HEAT, LOCAL_MODE_DRY, LOCAL_MODE_FAN,
            LOCAL_MODE_OFF, LOCAL_MODE_AUTO} |->
        CASE m = LOCAL_MODE_COOL -> MODE_COOL
          [] m = LOCAL_MODE_HEAT -> MODE_HEAT
          [] m = LOCAL_MODE_DRY -> MODE_DRY
          [] m = LOCAL_MODE_FAN -> MODE_FAN
          [] m = LOCAL_MODE_OFF -> None
          [] OTHER -> MODE_AUTO]

LOCAL_FAN_TO_CLOUD ==
    [f \in {LOCAL_FAN_AUTO, LOCAL_FAN_LOW, LOCAL_FAN_MEDIUM, LOCAL_FAN_HIGH,
            LOCAL_FAN_OFF} |->
        CASE f = LOCAL_FAN_AUTO -> WIND_AUTO
          [] f = LOCAL_FAN_LOW -> WIND_LOW
          [] f = LOCAL_FAN_MEDIUM -> WIND_MID
          [] f = LOCAL_FAN_HIGH -> WIND_HIGH
          [] OTHER -> WIND_AUTO]

\* the conversion reporting every unit as switched on
to_cloud_format_always_on(s) ==
    LET mode == Get(LOCAL_MODE_TO_CLOUD, s.ac_mode, MODE_AUTO)
        wind == Get(LOCAL_FAN_TO_CLOUD, s.fan_mode, WIND_AUTO)
    IN  [power |-> POWER_ON,
         mode |-> IF mode = None THEN MODE_AUTO ELSE mode,
         setTemp |-> Str(s.temperature_setpoint),
         wind |-> wind,
         factTemp |-> Str(s.temperature),
         swing |-> IF s.is_swing_on THEN "1" ELSE "0"]

\* LocalDeviceState.to_cloud_format
to_cloud_format(s) ==
    LET mode == Get(LOCAL_MODE_TO_CLOUD, s.ac_mode, MODE_AUTO)
        wind == Get(LOCAL_FAN_TO_CLOUD, s.fan_mode, WIND_AUTO)
        power == IF ~s.is_on THEN POWER_OFF ELSE POWER_ON
    IN  [power |-> power,
         mode |-> IF mode = None THEN MODE_AUTO ELSE mode,
         setTemp |-> Str(s.temperature_setpoint),
         wind |-> wind,
         factTemp |-> Str(s.temperature),
         swing |-> IF s.is_swing_on THEN "1" ELSE "0"]

\* LocalApi.get_status: a non-200 status, a client error and a timeout are
\* swallowed to an empty list; a body that is not the expected JSON raises
get_status(resp) ==
    CASE resp.kind = "ok" -> [raised |-> FALSE, states |-> resp.states]
      [] resp.kind \in {"http_status", "client_error", "timeout"} ->
            [raised |-> FALSE, states |-> <<>>]
      [] OTHER -> [raised |-> TRUE, states |-> <<>>]

\* ------------------------------------------------------------------------
\* coordinator.py : pure parts
\* ------------------------------------------------------------------------
\* the loop "for device in devices: if 'id' in device: result[id] = device":
\* the dict's insertion order (first occurrence of each id) ...
RECURSIVE ResultOrder(_)
ResultOrder(devices) ==
    IF devices = <<>> THEN <<>>
    ELSE LET front == ResultOrder(SubSeq(devices, 1, Len(devices) - 1))
             dev == devices[Len(devices)]
         IN  IF "id" \in DOMAIN dev /\ \A k \in 1..Len(front) : front[k] # dev.id
             THEN Append(front, dev.id)
             ELSE front

\* ... and its values (the last device of each id)
RECURSIVE ResultDict(_)
ResultDict(devices) ==
    IF devices = <<>> THEN EmptyDict
    ELSE LET front == ResultDict(SubSeq(devices, 1, Len(devices) - 1))
             dev == devices[Len(devices)]
         IN  IF "id" \in DOMAIN dev THEN Assign(front, dev.id, dev) ELSE front

\* sorted(local_states, key=lambda x: x.addr), a stable sort
RECURSIVE SortByAddr(_)
SortByAddr(states) ==
    IF states = <<>> THEN <<>>
    ELSE LET front == SortByAddr(SubSeq(states, 1, Len(states) - 1))
             s == states[Len(states)]
             pos == Cardinality({k \in 1..Len(front) : front[k].addr <= s.addr})
         IN  SubSeq(front, 1, pos) \o <<s>> \o SubSeq(front, pos + 1, Len(front))

\* the inner loop of strategy 1 taking the last candidate, not the first
FirstTempMatch_last(cloud_data, local_list, matched_local) ==
    LET cloud_temp == Get(cloud_data, "factTemp", "None")
        cloud_set == Get(cloud_data, "setTemp", "None")
        hits == { j \in 1..Len(local_list) :
                    /\ local_list[j].addr \notin matched_local
                    /\ cloud_temp = Str(local_list[j].temperature)
                    /\ cloud_set = Str(local_list[j].temperature_setpoint) }
    IN  IF hits = {} THEN 0 ELSE CHOOSE j \in hits : \A k \in hits : j >= k

\* the inner loop of strategy 1 without the check of matched_local
FirstTempMatch_ignores_matched(cloud_data, local_list, matched_local) ==
    LET cloud_temp == Get(cloud_data, "factTemp", None)
        cloud_set == Get(cloud_data, "setTemp", None)
        hits == { j \in 1..Len(local_list) :
                    /\ cloud_temp = Str(local_list[j].temperature)
                    /\ cloud_set = Str(local_list[j].temperature_setpoint) }
    IN  IF hits = {} THEN 0 ELSE CHOOSE j \in hits : \A k \in hits : j <= k

\* the inner loop of strategy 1: index of the first local state that is not
\* yet matched and carries the cloud record's temperatures, 0 if there is none
FirstTempMatch(cloud_data, local_list, matched_local) ==
    LET cloud_temp == Get(cloud_data, "factTemp", None)
        cloud_set == Get(cloud_data, "setTemp", None)
        hits == { j \in 1..Len(local_list) :
                    /\ local_list[j].addr \notin matched_local
                    /\ cloud_temp = Str(local_list[j].temperature)
                    /\ cloud_set = Str(local_list[j].temperature_setpoint) }
    IN  IF hits = {} THEN 0 ELSE CHOOSE j \in hits : \A k \in hits : j <= k

\* strategy 1, cloud records i.. of cloud_list; m = [map, cloud, local]
RECURSIVE MatchByTemp(_, _, _, _, _)
MatchByTemp(cloud_list, cloud_devices, local_list, i, m) ==
    IF i > Len(cloud_list) THEN m
    ELSE LET device_id == cloud_list[i]
             j == FirstTempMatch(cloud_devices[device_id], local_list, m.local)
         IN  IF j = 0
             THEN MatchByTemp(cloud_list, cloud_devices, local_list, i + 1, m)
             ELSE MatchByTemp(cloud_list, cloud_devices, local_list, i + 1,
                    [map |-> Assign(m.map, device_id, local_list[j].addr),
                     cloud |-> m.cloud \cup {device_id},
                     local |-> m.local \cup {local_list[j].addr}])

\* strategy 2: zip(unmatched_cloud, unmatched_local)
MatchByOrder(cloud_list, local_list, m) ==
    LET CloudLeft(id) == id \notin m.cloud
        LocalLeft(s) == s.addr \notin m.local
        unmatched_cloud == SelectSeq(cloud_list, CloudLeft)
        unmatched_local == SelectSeq(local_list, LocalLeft)
        n == IF Len(unmatched_cloud) < Len(unmatched_local)
             THEN Len(unmatched_cloud) ELSE Len(unmatched_local)
        paired == { unmatched_cloud[k] : k \in 1..n }
        IndexOf(id) == CHOOSE k \in 1..n : unmatched_cloud[k] = id
    IN  [id \in (DOMAIN m.map) \cup paired |->
            IF id \in paired THEN unmatched_local[IndexOf(id)].addr
            ELSE m.map[id]]

\* the reconciliation with the matched addresses kept from an earlier run
_build_addr_mapping_keeps_matched(mapping, cloud_list, cloud_devices, local_states) ==
    IF local_states = <<>> THEN mapping
    ELSE LET local_list == SortByAddr(local_states)
             m == MatchByTemp(cloud_list, cloud_devices, local_list, 1,
                              [map |-> mapping, cloud |-> {},
                               local |-> { mapping[id] : id \in DOMAIN mapping }])
         IN  MatchByOrder(cloud_list, local_list, m)

\* _build_addr_mapping after its local fetch returned local_states:
\* the new value of _id_to_addr
_build_addr_mapping(mapping, cloud_list, cloud_devices, local_states) ==
    IF local_states = <<>> THEN mapping
    ELSE LET local_list == SortByAddr(local_states)
             m == MatchByTemp(cloud_list, cloud_devices, local_list, 1,
                              [map |-> mapping, cloud |-> {}, local |-> {}])
         IN  MatchByOrder(cloud_list, local_list, m)

\* the cooldown check with the boundary second counted in
_in_cooldown_inclusive(last, t) ==
    IF last = 0 THEN FALSE
    ELSE (t - last) <= COMMAND_COOLDOWN_SECONDS

\* a cooldown that does not end once a command has been sent
_in_cooldown_forever(last, t) == last # 0

\* _in_cooldown
_in_cooldown(last, t) ==
    IF last = 0 THEN FALSE
    ELSE (t - last) < COMMAND_COOLDOWN_SECONDS

\* the overrides left out of the poll result
_apply_ha_overrides_skipped(result, overrides) == result

\* _apply_ha_overrides: the poll result with the stored overrides laid over it
_apply_ha_overrides(result, overrides) ==
    [d \in DOMAIN result |->
        IF d \in DOMAIN overrides /\ overrides[d] # EmptyDict
        THEN Update(result[d], overrides[d])
        ELSE result[d]]

\* addr_to_state = {s.addr: s for s in local_states}: the last one wins
addr_to_state(local_states) ==
    [a \in { local_states[k].addr : k \in 1..Len(local_states) } |->
        local_states[CHOOSE k \in 1..Len(local_states) :
                        /\ local_states[k].addr = a
                        /\ \A j \in (k + 1)..Len(local_states) :
                              local_states[j].addr # a]]

\* the merge loop starting every entry from an empty dict
LocalMerge_without_cache(mapping, cache, local_states) ==
    [d \in DOMAIN mapping |->
        IF mapping[d] \in DOMAIN addr_to_state(local_states)
        THEN to_cloud_format(addr_to_state(local_states)[mapping[d]])
        ELSE EmptyDict]

\* the merge loop of _update_from_local, before the overrides
LocalMerge(mapping, cache, local_states) ==
    LET known == { s.addr : s \in { local_states[k] : k \in 1..Len(local_states) } }
        \* addr_to_state = {s.addr: s for s in local_states}: the last one wins
        StateAt(a) == local_states[CHOOSE k \in 1..Len(local_states) :
                          /\ local_states[k].addr = a
                          /\ \A j \in (k + 1)..Len(local_states) :
                                local_states[j].addr # a]
    IN  [d \in DOMAIN mapping |->
            LET cached == Get(cache, d, EmptyDict)
            IN  IF mapping[d] \in known
                THEN Update(cached, to_cloud_format(StateAt(mapping[d])))
                ELSE cached]

\* _update_from_local after a local fetch that did not raise: the snapshot
_update_from_local(mapping, cache, overrides, local_states) ==
    _apply_ha_overrides(LocalMerge(mapping, cache, local_states), overrides)

\* _update_from_cloud after a cloud fetch that did not raise: the snapshot ...
_update_from_cloud(overrides, devices) ==
    _apply_ha_overrides(ResultDict(devices), overrides)

\* the cloud poll leaving the cache as it finds it
CacheAfterCloud_keeps_cache(cache, overrides, devices) == cache

\* ... and the cache: result[id] and _cloud_device_cache[id] are one dict
\* object, so the in-place update of _apply_ha_overrides reaches the cache
CacheAfterCloud(cache, overrides, devices) ==
    Update(cache, _update_from_cloud(overrides, devices))

\* get_cloud_device_data
get_cloud_device_data(cache, device_id) == Get(cache, device_id, EmptyDict)

\* the entity's _device_data property
_device_data(snapshot, last, device_id) ==
    IF snapshot # EmptyDict /\ device_id \in DOMAIN snapshot
    THEN snapshot[device_id]
    ELSE last[device_id]

\* the payload built from the identifier and the overrides alone
SendState_overrides_only(cache, snapshot, last, device_id, overrides) ==
    Update([id |-> device_id], overrides)

\* _send_control up to its await: the full state dict that is sent
SendState(cache, snapshot, last, device_id, overrides) ==
    LET cached == get_cloud_device_data(cache, device_id)
        state == IF cached = EmptyDict
                 THEN _device_data(snapshot, last, device_id)
                 ELSE cached
    IN  Update(state, overrides)

\* the cooldown start left unrecorded
notify_command_sent_dropped(t) == 0

\* notify_command_sent: the new value of _last_command_time
notify_command_sent(t) == t

\* set_ha_override: the new value of _ha_overrides
set_ha_override(overrides, device_id, fields) ==
    LET cur == Get(overrides, device_id, EmptyDict)
        keys == (DOMAIN fields) \cap {"mode", "wind"}
    IN  Assign(overrides, device_id,
               [k \in (DOMAIN cur) \cup keys |->
                   IF k \in keys THEN fields[k] ELSE cur[k]])

\* clear_ha_overrides: the new value of _ha_overrides
clear_ha_overrides(overrides, device_id) == Pop(overrides, device_id)

\* the cooldown branch returning an empty result instead of the snapshot
SkipPoll_empty(snapshot) == EmptyDict

\* the cooldown branch of _async_update_data: "return self.data or {}"
SkipPoll(snapshot) == IF snapshot = EmptyDict THEN EmptyDict ELSE snapshot

\* the try/except of _update_from_local: only an exception of the local
\* fetch leads to the cloud fetch
LocalFetchFallsBack(status) == status.raised

\* an empty device list taken for a failed fetch
CloudFetchFails_on_empty(resp) == ~resp.ok \/ resp.devices = <<>>

\* the try/except of _update_from_cloud: an AirControlBaseApiError of
\* get_devices becomes UpdateFailed
CloudFetchFails(resp) == ~resp.ok

\* the optimistic write publishing the commanded device alone
OptimisticWrite_replaces_snapshot(snapshot, device_id, state) ==
    IF snapshot # EmptyDict THEN [d \in {device_id} |-> state] ELSE snapshot

\* the optimistic write of _send_control: "if self.coordinator.data: ..."
OptimisticWrite(snapshot, device_id, state) ==
    IF snapshot # EmptyDict THEN Assign(snapshot, device_id, state) ELSE snapshot

\* the entities' _handle_coordinator_update, run after a tick has published
HandleUpdate(last, snapshot) ==
    [d \in DOMAIN last |->
        IF snapshot # EmptyDict /\ d \in DOMAIN snapshot
        THEN snapshot[d] ELSE last[d]]

\* ------------------------------------------------------------------------
\* Setup: async_setup_entry with async_initial_cloud_fetch
\* ------------------------------------------------------------------------
\* The two fetches of the setup run before any entity or timer exists, so
\* nothing interleaves with them.
\* the lists the setup fetched: the cloud's device list (empty when the fetch
\* raised) and, with a local transport, the gateway's state list
SetupFetched(cresp, lresp) ==
    [devices |-> cresp.devices,
     states |-> IF cresp.ok /\ local_api THEN get_status(lresp).states ELSE <<>>]

SetupFails(cresp, lresp) ==
    /\ phase = "uninit"
    /\ \/ ~cresp.ok
       \/ local_api /\ get_status(lresp).raised
    /\ phase' = "failed"
    /\ cloud_device_cache' =
          IF cresp.ok THEN Update(cloud_device_cache, ResultDict(cresp.devices))
          ELSE cloud_device_cache
    /\ act' = [Act("SetupFails", IF cresp.ok THEN lresp.kind ELSE "error",
                      EmptyDict) EXCEPT !.fetched = SetupFetched(cresp, lresp)]
    /\ UNCHANGED <<local_api, id_to_addr, ha_overrides, last_command_time, data,
                   last_device_data, now, tick, inflight, budget, hist,
                   api, call>>

\* the setup leaving the reconciliation out
Setup_without_reconciler(cresp, lresp) ==
    /\ phase = "uninit"
    /\ cresp.ok
    /\ local_api => ~get_status(lresp).raised
    /\ LET result == ResultDict(cresp.devices)
       IN  /\ cloud_device_cache' = Update(cloud_device_cache, result)
           /\ id_to_addr' = id_to_addr
           /\ data' = result
           /\ last_device_data' = result
    /\ phase' = "ready"
    /\ act' = [Act("Setup", IF local_api THEN lresp.kind ELSE "cloud", EmptyDict)
                 EXCEPT !.fetched = SetupFetched(cresp, lresp)]
    /\ UNCHANGED <<local_api, ha_overrides, last_command_time, now, tick,
                   inflight, budget, hist,
                   api, call>>

Setup(cresp, lresp) ==
    /\ phase = "uninit"
    /\ cresp.ok
    /\ local_api => ~get_status(lresp).raised
    /\ LET result == ResultDict(cresp.devices)
       IN  /\ cloud_device_cache' = Update(cloud_device_cache, result)
           /\ id_to_addr' =
                 IF local_api
                 THEN _build_addr_mapping(id_to_addr, ResultOrder(cresp.devices),
                                          result, get_status(lresp).states)
                 ELSE id_to_addr
           /\ data' = result
           /\ last_device_data' = result
    /\ phase' = "ready"
    /\ act' = [Act("Setup", IF local_api THEN lresp.kind ELSE "cloud", EmptyDict)
                 EXCEPT !.fetched = SetupFetched(cresp, lresp)]
    /\ UNCHANGED <<local_api, ha_overrides, last_command_time, now, tick,
                   inflight, budget, hist,
                   api, call>>

\* ------------------------------------------------------------------------
\* The update tick: _async_update_data, one tick at a time
\* ------------------------------------------------------------------------
TickMayStart ==
    /\ phase = "ready"
    /\ tick.pc = "idle"
    /\ budget < MaxOps

TickCooldown ==
    /\ TickMayStart
    /\ _in_cooldown(last_command_time, now)
    /\ data' = SkipPoll(data)
    /\ last_device_data' = HandleUpdate(last_device_data, data')
    /\ budget' = budget + 1
    /\ act' = Act("TickCooldown", "", EmptyDict)
    /\ UNCHANGED <<phase, local_api, id_to_addr, cloud_device_cache, ha_overrides,
                   last_command_time, now, tick, inflight, hist,
                   api, call>>

TickStartLocal ==
    /\ TickMayStart
    /\ ~_in_cooldown(last_command_time, now)
    /\ local_api /\ id_to_addr # EmptyDict
    /\ tick' = [pc |-> "local", fallback |-> FALSE, seen |-> hist.mode]
    /\ budget' = budget + 1
    /\ act' = Act("TickStartLocal", "", EmptyDict)
    /\ UNCHANGED <<phase, local_api, id_to_addr, cloud_device_cache, ha_overrides,
                   last_command_time, data, last_device_data, now, inflight, hist,
                   api, call>>

TickStartCloud ==
    /\ TickMayStart
    /\ ~_in_cooldown(last_command_time, now)
    /\ ~(local_api /\ id_to_addr # EmptyDict)
    /\ tick' = [pc |-> "cloud", fallback |-> FALSE, seen |-> hist.mode]
    /\ budget' = budget + 1
    /\ act' = Act("TickStartCloud", "", EmptyDict)
    /\ UNCHANGED <<phase, local_api, id_to_addr, cloud_device_cache, ha_overrides,
                   last_command_time, data, last_device_data, now, inflight, hist,
                   api, call>>

\* the local fetch returned (a list, possibly the empty list of a swallowed
\* failure): merge and publish
TickLocalDone(lresp) ==
    /\ tick.pc = "local"
    /\ ~LocalFetchFallsBack(get_status(lresp))
    /\ data' = _update_from_local(id_to_addr, cloud_device_cache, ha_overrides,
                                  get_status(lresp).states)
    /\ last_device_data' = HandleUpdate(last_device_data, data')
    /\ tick' = IdleTick
    /\ hist' = EndOfPoll(hist, Raced(hist, data, data'))
    /\ act' = [Act("TickLocalDone", lresp.kind, EmptyDict) EXCEPT
                  !.fetched = addr_to_state(get_status(lresp).states)]
    /\ UNCHANGED <<phase, local_api, id_to_addr, cloud_device_cache, ha_overrides,
                   last_command_time, now, inflight, budget,
                   api, call>>

\* the local fetch raised: go on with _update_from_cloud in the same tick
TickLocalRaised(lresp) ==
    /\ tick.pc = "local"
    /\ LocalFetchFallsBack(get_status(lresp))
    /\ tick' = [tick EXCEPT !.pc = "cloud", !.fallback = TRUE]
    /\ act' = Act("TickLocalRaised", lresp.kind, EmptyDict)
    /\ UNCHANGED <<phase, local_api, id_to_addr, cloud_device_cache, ha_overrides,
                   last_command_time, data, last_device_data, now, inflight,
                   budget, hist,
                   api, call>>

\* the cloud poll keeping the snapshot it finds when it ends in a cooldown
TickCloudDone_keeps_commanded(cresp) ==
    /\ tick.pc = "cloud"
    /\ ~CloudFetchFails(cresp)
    /\ data' = IF _in_cooldown(last_command_time, now) THEN data
               ELSE _update_from_cloud(ha_overrides, cresp.devices)
    /\ cloud_device_cache' =
          CacheAfterCloud(cloud_device_cache, ha_overrides, cresp.devices)
    /\ last_device_data' = HandleUpdate(last_device_data, data')
    /\ tick' = IdleTick
    /\ hist' = EndOfPoll(hist, Raced(hist, data, data'))
    /\ act' = [Act("TickCloudDone", IF tick.fallback THEN "fallback" ELSE "cloud",
                      EmptyDict) EXCEPT !.fetched = ResultDict(cresp.devices)]
    /\ UNCHANGED <<phase, local_api, id_to_addr, ha_overrides, last_command_time,
                   now, inflight, budget,
                   api, call>>

\* the cloud poll dropping the address map
TickCloudDone_clears_mapping(cresp) ==
    /\ tick.pc = "cloud"
    /\ ~CloudFetchFails(cresp)
    /\ data' = _update_from_cloud(ha_overrides, cresp.devices)
    /\ cloud_device_cache' =
          CacheAfterCloud(cloud_device_cache, ha_overrides, cresp.devices)
    /\ last_device_data' = HandleUpdate(last_device_data, data')
    /\ tick' = IdleTick
    /\ hist' = EndOfPoll(hist, Raced(hist, data, data'))
    /\ act' = [Act("TickCloudDone", IF tick.fallback THEN "fallback" ELSE "cloud",
                      EmptyDict) EXCEPT !.fetched = ResultDict(cresp.devices)]
    /\ id_to_addr' = EmptyDict
    /\ UNCHANGED <<phase, local_api, ha_overrides, last_command_time,
                   now, inflight, budget,
                   api, call>>

\* the cloud fetch returned: cache every record and publish
TickCloudDone(cresp) ==
    /\ tick.pc = "cloud"
    /\ ~CloudFetchFails(cresp)
    /\ data' = _update_from_cloud(ha_overrides, cresp.devices)
    /\ cloud_device_cache' =
          CacheAfterCloud(cloud_device_cache, ha_overrides, cresp.devices)
    /\ last_device_data' = HandleUpdate(last_device_data, data')
    /\ tick' = IdleTick
    /\ hist' = EndOfPoll(hist, Raced(hist, data, data'))
    /\ act' = [Act("TickCloudDone", IF tick.fallback THEN "fallback" ELSE "cloud",
                      EmptyDict) EXCEPT !.fetched = ResultDict(cresp.devices)]
    /\ UNCHANGED <<phase, local_api, id_to_addr, ha_overrides, last_command_time,
                   now, inflight, budget,
                   api, call>>

\* the cloud fetch raised: UpdateFailed, the snapshot stays as it is
TickFailed(cresp) ==
    /\ tick.pc = "cloud"
    /\ CloudFetchFails(cresp)
    /\ tick' = IdleTick
    /\ hist' = EndOfPoll(hist, hist.raced)
    /\ act' = Act("TickFailed", IF cresp.ok THEN "ok" ELSE "error", EmptyDict)
    /\ UNCHANGED <<phase, local_api, id_to_addr, cloud_device_cache, ha_overrides,
                   last_command_time, data, last_device_data, now, inflight,
                   budget,
                   api, call>>

\* ------------------------------------------------------------------------
\* The control command: MideaMControlClimate._send_control
\* ------------------------------------------------------------------------
\* the send with the cooldown start left for after the control call
SendStart_cooldown_late(device_id, overrides) ==
    /\ phase = "ready"
    /\ device_id \in DOMAIN last_device_data
    /\ budget < MaxOps
    /\ Cardinality(inflight) < MaxInFlight
    /\ inflight' = inflight \cup
          {[id |-> device_id, ov |-> overrides,
            state |-> SendState(cloud_device_cache, data, last_device_data,
                                device_id, overrides)]}
    /\ budget' = budget + 1
    /\ hist' = [hist EXCEPT
                  !.last_cmd = now,
                  !.during = IF tick.pc = "idle" THEN @
                             ELSE @ \cup {[id |-> device_id, ov |-> overrides,
                                           state |-> SendState(cloud_device_cache, data,
                                                               last_device_data,
                                                               device_id, overrides)]}]
    /\ act' = Act("SendStart", device_id, overrides)
    /\ UNCHANGED <<phase, local_api, id_to_addr, cloud_device_cache, ha_overrides,
                   last_command_time, data, last_device_data, now, tick,
                   api, call>>

\* up to the await of control_device
SendStart(device_id, overrides) ==
    /\ phase = "ready"
    /\ device_id \in DOMAIN last_device_data
    /\ budget < MaxOps
    /\ Cardinality(inflight) < MaxInFlight
    /\ inflight' = inflight \cup
          {[id |-> device_id, ov |-> overrides,
            state |-> SendState(cloud_device_cache, data, last_device_data,
                                device_id, overrides)]}
    /\ last_command_time' = notify_command_sent(now)
    /\ budget' = budget + 1
    /\ hist' = [hist EXCEPT
                  !.last_cmd = now,
                  !.during = IF tick.pc = "idle" THEN @
                             ELSE @ \cup {[id |-> device_id, ov |-> overrides,
                                           state |-> SendState(cloud_device_cache, data,
                                                               last_device_data,
                                                               device_id, overrides)]}]
    /\ act' = Act("SendStart", device_id, overrides)
    /\ UNCHANGED <<phase, local_api, id_to_addr, cloud_device_cache, ha_overrides,
                   data, last_device_data, now, tick,
                   api, call>>

\* the completion of a send starting the cooldown anew
SendOk_restarts_cooldown(s) ==
    /\ s \in inflight
    /\ inflight' = inflight \ {s}
    /\ data' = OptimisticWrite(data, s.id, s.state)
    /\ last_device_data' = Assign(last_device_data, s.id, s.state)
    /\ last_command_time' = now
    /\ hist' = [hist EXCEPT
                  !.mode = IF "mode" \in DOMAIN s.ov THEN Assign(@, s.id, s.ov.mode)
                           ELSE @,
                  !.during = @ \ {s},
                  !.written = IF s \in hist.during THEN @ \cup {s.id} ELSE @,
                  !.raced = @ \ {s.id}]
    /\ act' = [Act("SendOk", s.id, s.ov) EXCEPT !.state = s.state]
    /\ UNCHANGED <<phase, local_api, id_to_addr, cloud_device_cache, ha_overrides,
                   now, tick, budget, api, call>>

\* control_device returned: the optimistic write
SendOk(s) ==
    /\ s \in inflight
    /\ inflight' = inflight \ {s}
    /\ data' = OptimisticWrite(data, s.id, s.state)
    /\ last_device_data' = Assign(last_device_data, s.id, s.state)
    /\ hist' = [hist EXCEPT
                  !.mode = IF "mode" \in DOMAIN s.ov THEN Assign(@, s.id, s.ov.mode)
                           ELSE @,
                  !.during = @ \ {s},
                  !.written = IF s \in hist.during THEN @ \cup {s.id} ELSE @,
                  !.raced = @ \ {s.id}]
    /\ act' = [Act("SendOk", s.id, s.ov) EXCEPT !.state = s.state]
    /\ UNCHANGED <<phase, local_api, id_to_addr, cloud_device_cache, ha_overrides,
                   last_command_time, now, tick, budget,
                   api, call>>

\* control_device raised: the error leaves _send_control at the await
SendFailed(s) ==
    /\ s \in inflight
    /\ inflight' = inflight \ {s}
    /\ hist' = [hist EXCEPT !.during = @ \ {s}]
    /\ act' = [Act("SendFailed", s.id, s.ov) EXCEPT !.state = s.state]
    /\ UNCHANGED <<phase, local_api, id_to_addr, cloud_device_cache, ha_overrides,
                   last_command_time, data, last_device_data, now, tick, budget,
                   api, call>>

\* ------------------------------------------------------------------------
\* The coordinator's override methods.  No code of the integration calls
\* them; they are operations of the coordinator open to any caller.
\* ------------------------------------------------------------------------
SetHaOverride(device_id, fields) ==
    /\ phase = "ready"
    /\ budget < MaxOps
    /\ ha_overrides' = set_ha_override(ha_overrides, device_id, fields)
    /\ budget' = budget + 1
    /\ act' = Act("SetHaOverride", device_id, fields)
    /\ UNCHANGED <<phase, local_api, id_to_addr, cloud_device_cache,
                   last_command_time, data, last_device_data, now, tick,
                   inflight, hist,
                   api, call>>

ClearHaOverrides(device_id) ==
    /\ phase = "ready"
    /\ budget < MaxOps
    /\ ha_overrides' = clear_ha_overrides(ha_overrides, device_id)
    /\ budget' = budget + 1
    /\ act' = Act("ClearHaOverrides", device_id, EmptyDict)
    /\ UNCHANGED <<phase, local_api, id_to_addr, cloud_device_cache,
                   last_command_time, data, last_device_data, now, tick,
                   inflight, hist,
                   api, call>>

\* ------------------------------------------------------------------------
\* The clock
\* ------------------------------------------------------------------------
Advance(dt) ==
    /\ phase = "ready"
    /\ now + dt <= MaxTime
    /\ now' = now + dt
    /\ act' = Act("Advance", "", EmptyDict)
    /\ UNCHANGED <<phase, local_api, id_to_addr, cloud_device_cache, ha_overrides,
                   last_command_time, data, last_device_data, tick, inflight,
                   budget, hist,
                   api, call>>

Next ==
    \/ \E cresp \in CloudResponses, lresp \in LocalResponses : SetupFails(cresp, lresp)
    \/ \E cresp \in CloudResponses, lresp \in LocalResponses : Setup(cresp, lresp)
    \/ TickCooldown
    \/ TickStartLocal
    \/ TickStartCloud
    \/ \E lresp \in LocalResponses : TickLocalDone(lresp)
    \/ \E lresp \in LocalResponses : TickLocalRaised(lresp)
    \/ \E cresp \in CloudResponses : TickCloudDone(cresp)
    \/ \E cresp \in CloudResponses : TickFailed(cresp)
    \/ \E d \in CommandedIds, ov \in CommandOverrides : SendStart(d, ov)
    \/ \E s \in inflight : SendOk(s)
    \/ \E s \in inflight : SendFailed(s)
    \/ \E d \in CommandedIds, f \in OverrideFields : SetHaOverride(d, f)
    \/ \E d \in CommandedIds : ClearHaOverrides(d)
    \/ \E dt \in TimeSteps : Advance(dt)

Spec == Init /\ [][Next]_vars

\* ------------------------------------------------------------------------
\* The cloud client on its own: AirControlBaseApi._api_call and login
\* ------------------------------------------------------------------------
\* the coordinator's part of the state, which the client does not touch
coordinator_vars ==
    <<phase, local_api, id_to_addr, cloud_device_cache, ha_overrides,
      last_command_time, data, last_device_data, now, tick, inflight, budget,
      hist>>

\* what the login request can end in: the user id with or without a session
\* cookie, a non-200 status, a body without the user id (with or without a
\* cookie), a connection error
LoginResults ==
    {"ok_cookie", "ok_no_cookie", "http_status", "no_user_id",
     "no_user_id_cookie", "client_error"}

\* what the POST of _api_call can end in: a status and the body's "code", or
\* a connection error
ApiResponses ==
    { [kind |-> "http", status |-> st, code |-> c] :
          st \in {HTTP_OK, 500}, c \in {0, SESSION_EXPIRED_CODE} }
    \cup { [kind |-> "client_error", status |-> 0, code |-> 0] }

\* login: the credentials it leaves and the exception it raises, if any
login(a, res) ==
    CASE res = "ok_cookie" ->
            [user_id |-> TRUE, cookie |-> TRUE, raised |-> "none"]
      [] res = "ok_no_cookie" ->
            [user_id |-> TRUE, cookie |-> a.cookie, raised |-> "none"]
      [] res = "http_status" ->
            [user_id |-> a.user_id, cookie |-> a.cookie, raised |-> "auth_error"]
      [] res = "no_user_id" ->
            [user_id |-> a.user_id, cookie |-> a.cookie, raised |-> "auth_error"]
      [] res = "no_user_id_cookie" ->
            [user_id |-> a.user_id, cookie |-> TRUE, raised |-> "auth_error"]
      [] OTHER ->
            [user_id |-> a.user_id, cookie |-> a.cookie, raised |-> "api_error"]

\* the entry of _api_call: "if not self._user_id or not self._cookie"
NeedsLogin(a) == ~a.user_id \/ ~a.cookie

\* the session-expired branch retrying whatever the flag says
AfterExpired_always_retry(retry_on_expired) == "login_expired"

\* the session-expired branch: re-login and retry, or give up
AfterExpired(retry_on_expired) ==
    IF retry_on_expired THEN "login_expired" ELSE "auth_error"

\* how _api_call treats a response: "ok", "api_error", or the session-expired
\* branch
AfterResponse(resp, retry_on_expired) ==
    CASE resp.kind = "client_error" -> "api_error"
      [] resp.status # HTTP_OK -> "api_error"
      [] resp.code = SESSION_EXPIRED_CODE -> AfterExpired(retry_on_expired)
      [] OTHER -> "ok"

\* a logical call ends: the result or the exception reaches the caller
ApiEnd(a, outcome) == [a EXCEPT !.pc = "done", !.outcome = outcome]

\* get_devices or control_device calls _api_call(path, data)
ApiCallStart ==
    /\ api.pc \in {"idle", "done"}
    /\ api.calls < MaxCalls
    /\ api' = [api EXCEPT !.pc = IF NeedsLogin(api) THEN "login_first" ELSE "request",
                          !.retry_on_expired = TRUE,
                          !.requests = IF NeedsLogin(api) THEN 0 ELSE 1,
                          !.logins = IF NeedsLogin(api) THEN 1 ELSE 0,
                          !.relogins = 0,
                          !.outcome = "none",
                          !.calls = @ + 1]
    /\ act' = Act("ApiCallStart", "", EmptyDict)
    /\ UNCHANGED <<coordinator_vars, call>>

\* the login awaited at the entry of _api_call returns or raises; when it
\* returns, the request is posted whatever credentials it left
ApiLoginFirst(res) ==
    /\ api.pc = "login_first"
    /\ LET l == login(api, res)
           a == [api EXCEPT !.user_id = l.user_id, !.cookie = l.cookie]
       IN  api' = IF l.raised # "none" THEN ApiEnd(a, l.raised)
                  ELSE [a EXCEPT !.pc = "request", !.requests = @ + 1]
    /\ act' = Act("ApiLoginFirst", res, EmptyDict)
    /\ UNCHANGED <<coordinator_vars, call>>

\* the POST returns or raises
ApiResponse(resp) ==
    /\ api.pc = "request"
    /\ LET next == AfterResponse(resp, api.retry_on_expired)
       IN  api' = IF next = "login_expired"
                  THEN [api EXCEPT !.pc = "login_expired", !.logins = @ + 1,
                                   !.relogins = @ + 1]
                  ELSE ApiEnd(api, next)
    /\ act' = Act("ApiResponse",
                  IF resp.kind = "client_error" THEN "client_error"
                  ELSE IF resp.status # HTTP_OK THEN "http_status"
                  ELSE IF resp.code = SESSION_EXPIRED_CODE THEN "expired"
                  ELSE "ok", EmptyDict)
    /\ UNCHANGED <<coordinator_vars, call>>

\* the re-login of the session-expired branch returns or raises; when it
\* returns, _api_call(path, data, retry_on_expired=False) is entered
ApiRelogin(res) ==
    /\ api.pc = "login_expired"
    /\ LET l == login(api, res)
           a == [api EXCEPT !.user_id = l.user_id, !.cookie = l.cookie,
                            !.retry_on_expired = FALSE]
       IN  api' = IF l.raised # "none" THEN ApiEnd(a, l.raised)
                  ELSE IF NeedsLogin(a)
                       THEN [a EXCEPT !.pc = "login_first", !.logins = @ + 1]
                       ELSE [a EXCEPT !.pc = "request", !.requests = @ + 1]
    /\ act' = Act("ApiRelogin", res, EmptyDict)
    /\ UNCHANGED <<coordinator_vars, call>>

NextApi ==
    \/ ApiCallStart
    \/ \E res \in LoginResults : ApiLoginFirst(res)
    \/ \E resp \in ApiResponses : ApiResponse(resp)
    \/ \E res \in LoginResults : ApiRelogin(res)

SpecApi == Init /\ [][NextApi]_vars

\* ------------------------------------------------------------------------
\* The address reconciliation on its own: _build_addr_mapping
\* ------------------------------------------------------------------------
\* the local addresses of a gateway with MaxUnits units
UnitAddrs == 1..MaxUnits

\* (measured temperature, setpoint) pairs: two share the temperature, two
\* share the setpoint
TempPairs == { <<24, 22>>, <<24, 25>>, <<26, 25>> }

\* cloud records of the account's devices: with the temperatures of a pair
\* as decimal strings, or without the two fields
ReconcileRecords ==
    { [id |-> i, name |-> NameOf(i), factTemp |-> Str(p[1]), setTemp |-> Str(p[2])] :
          i \in Ids, p \in TempPairs }
    \cup { [id |-> i, name |-> NameOf(i)] : i \in Ids }

\* device lists: no identifier twice, any order
ReconcileCloudLists ==
    { l \in SeqsUpTo(ReconcileRecords, Cardinality(Ids)) :
        \A i, j \in DOMAIN l : i # j => l[i].id # l[j].id }

\* local states: any unit with the temperatures of any pair
ReconcileStates ==
    { LocalDeviceState(a, [ac_mode |-> LOCAL_MODE_COOL, fan_mode |-> LOCAL_FAN_AUTO,
                           temperature |-> p[1], temperature_setpoint |-> p[2],
                           is_swing_on |-> FALSE]) :
          a \in UnitAddrs, p \in TempPairs }

\* state lists as the gateway reports them: one state per address at most,
\* in ascending or in descending order of the addresses
ReconcileLocalLists ==
    { l \in SeqsUpTo(ReconcileStates, MaxUnits) :
        \/ \A i, j \in DOMAIN l : i < j => l[i].addr < l[j].addr
        \/ \A i, j \in DOMAIN l : i < j => l[i].addr > l[j].addr }

\* one run of _build_addr_mapping on a fresh coordinator
CallBuildAddrMapping(devices, local_states) ==
    /\ call.fn = "none"
    /\ call' = [fn |-> "_build_addr_mapping",
                arg |-> [devices |-> devices, local_states |-> local_states],
                result |-> _build_addr_mapping(EmptyDict, ResultOrder(devices),
                                               ResultDict(devices), local_states)]
    /\ act' = Act("CallBuildAddrMapping", "", EmptyDict)
    /\ UNCHANGED <<coordinator_vars, api>>

\* a second run on the same coordinator with the same two lists: it writes
\* into the _id_to_addr the first run left
CallBuildAddrMappingAgain ==
    /\ call.fn = "_build_addr_mapping"
    /\ call' = [call EXCEPT
                  !.fn = "_build_addr_mapping twice",
                  !.result = _build_addr_mapping(call.result,
                                                 ResultOrder(call.arg.devices),
                                                 ResultDict(call.arg.devices),
                                                 call.arg.local_states)]
    /\ act' = Act("CallBuildAddrMappingAgain", "", EmptyDict)
    /\ UNCHANGED <<coordinator_vars, api>>

NextReconcile ==
    \/ \E devices \in ReconcileCloudLists, local_states \in ReconcileLocalLists :
          CallBuildAddrMapping(devices, local_states)
    \/ CallBuildAddrMappingAgain

\* the reconciliation runs on a coordinator that has a local transport
InitReconcile == Init /\ local_api

SpecReconcile == InitReconcile /\ [][NextReconcile]_vars

\* ------------------------------------------------------------------------
\* The status decoder on its own: parse_hex_status
\* ------------------------------------------------------------------------
\* a Python str is a sequence of one-character strings here
HexDigits ==
    <<"0", "1", "2", "3", "4", "5", "6", "7", "8", "9", "a", "b", "c", "d", "e", "f">>

UpperHexDigits == <<"A", "B", "C", "D", "E", "F">>

\* the value of a hexadecimal digit, -1 for any other character
HexVal(c) ==
    IF \E n \in 1..16 : HexDigits[n] = c
    THEN (CHOOSE n \in 1..16 : HexDigits[n] = c) - 1
    ELSE IF \E n \in 1..6 : UpperHexDigits[n] = c
         THEN (CHOOSE n \in 1..6 : UpperHexDigits[n] = c) + 9
         ELSE 0 - 1

\* str.strip(chars): the characters of the set removed from both ends
RECURSIVE LStrip(_, _)
LStrip(str, chars) ==
    IF str # <<>> /\ Head(str) \in chars THEN LStrip(Tail(str), chars) ELSE str

RECURSIVE RStrip(_, _)
RStrip(str, chars) ==
    IF str # <<>> /\ str[Len(str)] \in chars
    THEN RStrip(SubSeq(str, 1, Len(str) - 1), chars)
    ELSE str

Strip(str, chars) == RStrip(LStrip(str, chars), chars)

\* bytes.fromhex: pairs of hexadecimal digits, white space allowed between
\* the pairs; [raised, raw], raised on any other character and on a digit
\* without its pair (ValueError)
RECURSIVE fromhex(_)
fromhex(str) ==
    IF str = <<>> THEN [raised |-> FALSE, raw |-> <<>>]
    ELSE IF Head(str) = " " THEN fromhex(Tail(str))
    ELSE IF Len(str) < 2 \/ HexVal(str[1]) < 0 \/ HexVal(str[2]) < 0
         THEN [raised |-> TRUE, raw |-> <<>>]
         ELSE LET rest == fromhex(SubSeq(str, 3, Len(str)))
              IN  [raised |-> rest.raised,
                   raw |-> IF rest.raised THEN <<>>
                           ELSE <<16 * HexVal(str[1]) + HexVal(str[2])>> \o rest.raw]

\* the on/off decision taken from the raw power bit or the mode
IsOn_power_bit(byte3, ac_mode) == (byte3 % 2) # 0 \/ ac_mode # LOCAL_MODE_OFF

\* the on/off decision of parse_hex_status: the last assignment of is_on
IsOn(byte3, ac_mode) == ac_mode # LOCAL_MODE_OFF

\* byte 6 taken as an unsigned value
SignedByte_unsigned(byte6) == byte6

\* byte 6 as a signed 8-bit value
SignedByte(byte6) == IF byte6 < 128 THEN byte6 ELSE byte6 - 256

\* parse_hex_status: <<>> is None, <<s>> the LocalDeviceState s; raw[k] of
\* the code is raw[k + 1] here
parse_hex_status(addr, hex_data) ==
    IF hex_data = <<"-">> \/ Len(hex_data) < 14 THEN <<>>
    ELSE LET hex_clean == Strip(Strip(hex_data, {","}), {" "})
             parsed == fromhex(hex_clean)
             raw == parsed.raw
         IN  IF parsed.raised \/ Len(raw) < 7 THEN <<>>
             ELSE LET byte3 == raw[4]
                      ac_mode == (byte3 \div 4) % 8
                      fan_mode == (byte3 \div 32) % 8
                      byte4 == raw[5]
                      byte2 == raw[3]
                      byte6 == raw[7]
                  IN  << [addr |-> addr,
                          ac_mode |-> ac_mode,
                          fan_mode |-> fan_mode,
                          temperature |-> SignedByte(byte6),
                          temperature_setpoint |-> (byte4 \div 8) % 32,
                          is_swing_on |-> ((byte4 \div 2) % 2 # 0),
                          error_code |-> (byte2 \div 4) % 64,
                          is_on |-> IsOn(byte3, ac_mode)] >>

\* the hexadecimal text the gateway sends for a record of bytes
RECURSIVE ToHex(_)
ToHex(bytes) ==
    IF bytes = <<>> THEN <<>>
    ELSE <<HexDigits[(Head(bytes) \div 16) + 1], HexDigits[(Head(bytes) % 16) + 1]>>
         \o ToHex(Tail(bytes))

\* a status record of seven bytes with the given bytes 2, 3, 4 and 6
StatusRecord(byte2, byte3, byte4, byte6) == <<0, 0, byte2, byte3, byte4, 0, byte6>>

\* the records decoded: every value of byte 3 with a few values of the other
\* bytes, and every value of byte 6 with a few values of the other bytes
StatusRecords ==
    { StatusRecord(b2, b3, b4, b6) :
          b2 \in {0, 252}, b3 \in 0..255, b4 \in {0, 178}, b6 \in {24, 255} }
    \cup { StatusRecord(b2, b3, b4, b6) :
          b2 \in {0, 252}, b3 \in {17, 20}, b4 \in {0, 178}, b6 \in 0..255 }

\* what is handed to the decoder: the bytes of the record, if there is one,
\* and the text; records as sent, with a trailing separator, with an eighth
\* byte, in capitals; then the sentinel, a record of six bytes, a text with
\* a character that is no hexadecimal digit, and a text of 13 digits and a
\* separator
DecoderInputs ==
    { [bytes |-> r, hex_data |-> ToHex(r)] : r \in StatusRecords }
    \cup { [bytes |-> r, hex_data |-> ToHex(r) \o <<",">>] :
              r \in { StatusRecord(0, b3, 178, 24) : b3 \in 0..255 } }
    \cup { [bytes |-> r \o <<7>>, hex_data |-> ToHex(r \o <<7>>)] :
              r \in { StatusRecord(0, 17, 178, b6) : b6 \in 0..255 } }
    \cup { [bytes |-> StatusRecord(0, 20, 178, 250),
             hex_data |-> <<"0", "0", "0", "0", "0", "0", "1", "4", "B", "2",
                            "0", "0", "F", "A">>],
            [bytes |-> <<>>, hex_data |-> <<"-">>],
            [bytes |-> <<0, 0, 0, 20, 178, 0>>,
             hex_data |-> ToHex(<<0, 0, 0, 20, 178, 0>>)],
            [bytes |-> <<>>,
             hex_data |-> <<"0", "0", "0", "0", "0", "0", "1", "4", "g", "2",
                            "0", "0", "1", "8">>],
            [bytes |-> <<>>,
             hex_data |-> <<"0", "0", "0", "0", "0", "0", "1", "4", "b", "2",
                            "0", "0", "1", ",">>] }

\* one call of parse_hex_status
CallParseHexStatus(addr, input) ==
    /\ call.fn = "none"
    /\ call' = [fn |-> "parse_hex_status",
                arg |-> [addr |-> addr, bytes |-> input.bytes,
                         hex_data |-> input.hex_data],
                result |-> parse_hex_status(addr, input.hex_data)]
    /\ act' = Act("CallParseHexStatus", "", EmptyDict)
    /\ UNCHANGED <<coordinator_vars, api>>

\* the state the decoder returned is converted for the merge
CallToCloudFormat ==
    /\ call.fn = "parse_hex_status"
    /\ call.result # <<>>
    /\ call' = [fn |-> "to_cloud_format",
                arg |-> call.result[1],
                result |-> to_cloud_format(call.result[1])]
    /\ act' = Act("CallToCloudFormat", "", EmptyDict)
    /\ UNCHANGED <<coordinator_vars, api>>

NextDecode ==
    \/ \E addr \in Addrs, input \in DecoderInputs : CallParseHexStatus(addr, input)
    \/ CallToCloudFormat

SpecDecode == InitReconcile /\ [][NextDecode]_vars

\* ------------------------------------------------------------------------
\* The coordinator with its timer running on: the update interval fires a
\* tick again and again, a fetch returns or raises, the clock advances.
\* Commands are counted by the budget; ticks are not.
\* ------------------------------------------------------------------------
\* what the two transports answer here: an error or the list of device A
\* running in cool mode; an exception or the state of unit 1 switched off
LiveCloudResponses ==
    { r \in CloudResponses :
        \/ ~r.ok
        \/ /\ Len(r.devices) = 1
           /\ Get(r.devices[1], "id", None) = "A"
           /\ r.devices[1].mode = MODE_COOL }

LiveLocalResponses ==
    { r \in LocalResponses :
        \/ r.kind = "bad_body"
        \/ /\ Len(r.states) = 1
           /\ r.states[1].addr = 1
           /\ r.states[1].ac_mode = LOCAL_MODE_OFF }

\* the commands sent here: those that set a mode
LiveCommands == { ov \in CommandOverrides : "mode" \in DOMAIN ov }

\* the update interval fires: the three branches of _async_update_data
LiveTickCooldown ==
    /\ phase = "ready" /\ tick.pc = "idle"
    /\ _in_cooldown(last_command_time, now)
    /\ data' = SkipPoll(data)
    /\ last_device_data' = HandleUpdate(last_device_data, data')
    /\ act' = Act("TickCooldown", "", EmptyDict)
    /\ UNCHANGED <<phase, local_api, id_to_addr, cloud_device_cache, ha_overrides,
                   last_command_time, now, tick, inflight, budget, hist,
                   api, call>>

LiveTickStartLocal ==
    /\ phase = "ready" /\ tick.pc = "idle"
    /\ ~_in_cooldown(last_command_time, now)
    /\ local_api /\ id_to_addr # EmptyDict
    /\ tick' = [pc |-> "local", fallback |-> FALSE, seen |-> hist.mode]
    /\ act' = Act("TickStartLocal", "", EmptyDict)
    /\ UNCHANGED <<phase, local_api, id_to_addr, cloud_device_cache, ha_overrides,
                   last_command_time, data, last_device_data, now, inflight,
                   budget, hist, api, call>>

LiveTickStartCloud ==
    /\ phase = "ready" /\ tick.pc = "idle"
    /\ ~_in_cooldown(last_command_time, now)
    /\ ~(local_api /\ id_to_addr # EmptyDict)
    /\ tick' = [pc |-> "cloud", fallback |-> FALSE, seen |-> hist.mode]
    /\ act' = Act("TickStartCloud", "", EmptyDict)
    /\ UNCHANGED <<phase, local_api, id_to_addr, cloud_device_cache, ha_overrides,
                   last_command_time, data, last_device_data, now, inflight,
                   budget, hist, api, call>>

\* the clock runs a little longer here, in steps of one second and of almost a
\* cooldown, so that commands can be sent at several times
LiveMaxTime == MaxTime + 2

LiveTimeSteps == {1, 14}

\* a command is sent only while the clock has the length of a cooldown
\* left to run
LiveSendStart(device_id, overrides) ==
    /\ now + COMMAND_COOLDOWN_SECONDS <= LiveMaxTime
    /\ SendStart(device_id, overrides)

LiveAdvance(dt) ==
    /\ phase = "ready"
    /\ now + dt <= LiveMaxTime
    /\ now' = now + dt
    /\ act' = Act("Advance", "", EmptyDict)
    /\ UNCHANGED <<phase, local_api, id_to_addr, cloud_device_cache, ha_overrides,
                   last_command_time, data, last_device_data, tick, inflight,
                   budget, hist, api, call>>

\* a tick begins
LiveTickBegins == LiveTickCooldown \/ LiveTickStartLocal \/ LiveTickStartCloud

\* the fetch of the tick in flight ends
LiveFetchEnds ==
    \/ \E lresp \in LiveLocalResponses : TickLocalDone(lresp)
    \/ \E lresp \in LiveLocalResponses : TickLocalRaised(lresp)
    \/ \E cresp \in LiveCloudResponses : TickCloudDone(cresp)
    \/ \E cresp \in LiveCloudResponses : TickFailed(cresp)

\* the clock advances
LiveClock == \E dt \in LiveTimeSteps : LiveAdvance(dt)

NextLive ==
    \/ \E cresp \in LiveCloudResponses, lresp \in LiveLocalResponses :
          SetupFails(cresp, lresp)
    \/ \E cresp \in LiveCloudResponses, lresp \in LiveLocalResponses :
          Setup(cresp, lresp)
    \/ LiveTickCooldown
    \/ LiveTickStartLocal
    \/ LiveTickStartCloud
    \/ \E lresp \in LiveLocalResponses : TickLocalDone(lresp)
    \/ \E lresp \in LiveLocalResponses : TickLocalRaised(lresp)
    \/ \E cresp \in LiveCloudResponses : TickCloudDone(cresp)
    \/ \E cresp \in LiveCloudResponses : TickFailed(cresp)
    \/ \E d \in CommandedIds, ov \in LiveCommands : LiveSendStart(d, ov)
    \/ \E s \in inflight : SendOk(s)
    \/ \E s \in inflight : SendFailed(s)
    \/ LiveClock

\* the timer of the update interval keeps firing, every fetch returns or
\* raises (the transports have timeouts), time passes
SpecLive ==
    /\ Init /\ [][NextLive]_vars
    /\ WF_vars(LiveTickBegins)
    /\ WF_vars(LiveFetchEnds)
    /\ WF_vars(LiveClock)

\* ------------------------------------------------------------------------
\* Properties
\* ------------------------------------------------------------------------
\* the identifiers of the snapshot published at setup: one entity each
SetupKeys == DOMAIN last_device_data

\* the steps in which a poll publishes a fetched snapshot
PollOps == {"TickLocalDone", "TickCloudDone"}

\* the local fetch failures the transport swallows
SwallowedKinds == {"http_status", "client_error", "timeout"}

\* C1: every device identifier of the snapshot published at setup is a key
\* of every snapshot a later tick publishes; stated for the ticks of the
\* local path, which the claim includes by name.
C1_SetupKeysPersist ==
    (phase = "ready" /\ act.op = "TickLocalDone") => SetupKeys \subseteq DOMAIN data

\* C2: once a command has set mode = m for device d, every snapshot published
\* by a poll that starts afterwards and lists d reports mode = m for d, inside
\* the cooldown (the skipped tick) and after it (the local and cloud polls).
C2_CommandRoundTrip ==
    [][ /\ act'.op = "TickCooldown" =>
              \A d \in (DOMAIN hist.mode) \cap (DOMAIN data') :
                  Get(data'[d], "mode", None) = hist.mode[d]
        /\ act'.op \in PollOps =>
              \A d \in (DOMAIN tick.seen) \cap (DOMAIN data') :
                  Get(data'[d], "mode", None) = tick.seen[d]
      ]_vars

\* C3: when a send whose overrides name mode or wind has completed, the
\* OverrideCache entry of the commanded device holds exactly those values.
C3_SendStoresOverride ==
    act.op = "SendOk" =>
        \A k \in (DOMAIN act.ov) \cap {"mode", "wind"} :
            /\ act.id \in DOMAIN ha_overrides
            /\ k \in DOMAIN ha_overrides[act.id]
            /\ ha_overrides[act.id][k] = act.ov[k]

\* C4: when a send that sets power to off has completed, the OverrideCache
\* has no entry for the commanded device.
C4_OffClearsOverride ==
    (act.op = "SendOk" /\ Get(act.ov, "power", None) = POWER_OFF) =>
        act.id \notin DOMAIN ha_overrides

\* C5: in the snapshot a local or cloud poll (fallback included) publishes,
\* every device that has a stored override carries the override's mode and
\* wind, whatever the transport reported.
C5_OverridesApplied ==
    act.op \in PollOps =>
        \A d \in (DOMAIN data) \cap (DOMAIN ha_overrides) :
            \A k \in DOMAIN ha_overrides[d] :
                k \in DOMAIN data[d] /\ data[d][k] = ha_overrides[d][k]

\* a local poll has merged the local reading (auto, 24 degrees, swing on) of
\* device A and published mode dry, the stored override
C5_Witness ==
    /\ act.op = "TickLocalDone" /\ act.id = "ok"
    /\ "A" \in (DOMAIN data) \cap (DOMAIN ha_overrides)
    /\ ha_overrides["A"] = [mode |-> MODE_DRY]
    /\ data["A"].mode = MODE_DRY
    /\ data["A"].factTemp = "24" /\ data["A"].swing = "1"

\* a command has been issued and its cooldown has not run out
CommandWithin15 ==
    hist.last_cmd >= 0 /\ now - hist.last_cmd < 15

\* C6: a tick is skipped if and only if a command has been issued and less
\* than 15 seconds have passed since the most recent one; otherwise the tick
\* starts a real poll.
C6_CooldownDecision ==
    /\ act.op = "TickCooldown" => CommandWithin15
    /\ act.op \in {"TickStartLocal", "TickStartCloud"} => ~CommandWithin15

\* a tick that starts exactly 15 seconds after the last command polls
C6_Witness ==
    /\ act.op \in {"TickStartLocal", "TickStartCloud"}
    /\ hist.last_cmd >= 0
    /\ now - hist.last_cmd = 15

\* C7: a tick in the cooldown window starts no fetch, returns the snapshot
\* as it is and leaves the cloud record cache, the OverrideCache, the
\* AddressMap and the CooldownClock unchanged.
C7_CooldownTickFrame ==
    [][ act'.op = "TickCooldown" =>
           /\ data' = data
           /\ tick'.pc = "idle"
           /\ UNCHANGED <<cloud_device_cache, ha_overrides, id_to_addr,
                          last_command_time>>
      ]_vars

\* a skipped tick has republished the optimistic state of a heat command
C7_Witness ==
    /\ act.op = "TickCooldown"
    /\ "A" \in DOMAIN data
    /\ data["A"].mode = MODE_HEAT
    /\ last_command_time # 0

\* C8: on the local path, a local fetch that fails (timeout, connection
\* error, non-200 response) is followed by a cloud fetch in the same tick;
\* the tick never publishes from the local path after a failed fetch.
C8_LocalFailureFallsBack ==
    act.op = "TickLocalDone" => act.id \notin SwallowedKinds

\* C9: a tick ends in an update failure only in the step in which its cloud
\* fetch fails, that step leaves the snapshot, the cloud record cache, the
\* OverrideCache and the AddressMap unchanged, and the step that ends a
\* local fetch never ends the tick in a failure.
C9_UpdateFailurePolicy ==
    [][ act'.op = "TickFailed" =>
           /\ tick.pc = "cloud"
           /\ act'.id = "error"
           /\ UNCHANGED <<data, cloud_device_cache, ha_overrides, id_to_addr>>
      ]_vars

\* a tick has ended in an update failure with a snapshot published before
C9_Witness ==
    /\ act.op = "TickFailed"
    /\ data # EmptyDict

\* C10 as claimed: when the control call of a send raises, the CooldownClock
\* holds the time of the send and the snapshot entry of the commanded device
\* holds the merged map.
C10_FailedSendOptimistic ==
    act.op = "SendFailed" =>
        /\ last_command_time = hist.last_cmd
        /\ act.id \in DOMAIN data
        /\ data[act.id] = act.state

\* C10 as amended: when the control call of a send raises, the CooldownClock
\* holds the time written by the most recent send and is not rolled back,
\* the OverrideCache is unchanged, and the snapshot is left as it was: the
\* optimistic write is not made.
C10_FailedSendAmended ==
    [][ act'.op = "SendFailed" =>
           /\ last_command_time' = hist'.last_cmd
           /\ last_command_time' # 0
           /\ UNCHANGED <<last_command_time, ha_overrides, data,
                          last_device_data, cloud_device_cache>>
      ]_vars

\* a send has failed: the cooldown runs, the snapshot entry of the device is
\* not the map that was sent
C10_Witness ==
    /\ act.op = "SendFailed"
    /\ last_command_time = hist.last_cmd
    /\ act.id \in DOMAIN data
    /\ data[act.id] # act.state

\* the steps of an update tick
TickOps ==
    {"TickCooldown", "TickStartLocal", "TickStartCloud", "TickLocalDone",
     "TickLocalRaised", "TickCloudDone", "TickFailed"}

\* the steps in which a tick that is not skipped starts its fetch
TickStartOps == {"TickStartLocal", "TickStartCloud"}

\* C11 as claimed: no step of a tick runs between the CooldownClock write
\* and the optimistic snapshot write of a send, that is, while the send
\* waits for its control call.
C11_NoTickBetweenWrites ==
    act.op \in TickOps => inflight = {}

\* C11 as amended: the CooldownClock write comes before the control call
\* and the optimistic snapshot write after it, so the send is suspended
\* between the two writes and ticks run there; every tick that begins less
\* than 15 seconds after the most recent cooldown write is skipped, and the
\* step that ends the send makes the optimistic write without touching the
\* CooldownClock.
C11_SendWritesAmended ==
    [][ /\ (act'.op \in TickStartOps \cup {"TickCooldown"} /\ CommandWithin15) =>
                  /\ act'.op = "TickCooldown"
                  /\ data' = data
                  /\ tick' = tick
        /\ act'.op = "SendStart" =>
               /\ last_command_time' = now
               /\ data' = data
               /\ inflight' # {}
        /\ act'.op = "SendOk" =>
               /\ last_command_time' = last_command_time
               /\ data # EmptyDict => data'[act'.id] = act'.state
      ]_vars

\* a tick has run, and was skipped, while a send waited for its control call
C11_Witness ==
    /\ act.op = "TickCooldown"
    /\ inflight # {}
    /\ last_command_time = now

\* C12: within one logical cloud call, a session-expired response leads to
\* one re-login and, when the re-login succeeds, to one retry of the request;
\* a session-expired response to the retry ends the call with an
\* authentication failure and no further request; a call makes two requests
\* and one expiry-triggered re-login at most, and every step of a call either
\* ends it or adds a request or a login, of which there are five at most.
C12_ExpiredRetryOnce ==
    [][ /\ api'.requests <= 2 /\ api'.relogins <= 1
        /\ api'.requests = 2 => api'.relogins = 1 /\ ~api'.retry_on_expired
        /\ (act'.op = "ApiResponse" /\ act'.id = "expired") =>
               IF api.requests = 1
               THEN /\ api'.pc = "login_expired"
                    /\ api'.relogins = 1 /\ api'.requests = 1
               ELSE /\ api'.pc = "done" /\ api'.outcome = "auth_error"
                    /\ api'.requests = 2 /\ api'.logins = api.logins
        /\ (act'.op = "ApiRelogin" /\ api'.pc # "done") =>
               api'.requests + (IF api'.pc = "login_first" THEN 1 ELSE 0) = 2
        /\ (api.pc \notin {"idle", "done"}) =>
               /\ api'.requests + api'.logins <= 5
               /\ \/ api'.pc = "done"
                  \/ api'.requests + api'.logins = api.requests + api.logins + 1
      ]_vars

\* the retry of a call was answered session-expired too: an authentication
\* failure after two requests and one re-login
C12_Witness ==
    /\ act.op = "ApiResponse" /\ act.id = "expired"
    /\ api.pc = "done" /\ api.outcome = "auth_error"
    /\ api.requests = 2 /\ api.relogins = 1

\* the (factTemp, setTemp) pair of a cloud record
CloudPair(rec) == <<Get(rec, "factTemp", None), Get(rec, "setTemp", None)>>

\* the pair of a local state, as decimal strings
LocalPair(st) == <<Str(st.temperature), Str(st.temperature_setpoint)>>

\* the k-th lowest element of a set of addresses
KthLowest(S, k) == CHOOSE a \in S : Cardinality({b \in S : b <= a}) = k

\* C13: the attribute pass maps a cloud record to the local state with the
\* equal (factTemp, setTemp) pair; among the cloud records that carry one
\* pair, taken in list order, the k-th gets the k-th lowest address of the
\* local states that carry the pair, so with pairwise distinct pairs each
\* identifier gets the address of the one state with its pair, and a state
\* taken by one record is not given to a later one.
C13_AttributeMatch ==
    call.fn = "_build_addr_mapping" =>
        LET devices == call.arg.devices
            states == call.arg.local_states
        IN  \A i \in 1..Len(devices) :
               LET p == CloudPair(devices[i])
                   rank == Cardinality({ j \in 1..i : CloudPair(devices[j]) = p })
                   cands == { states[k].addr : k \in { k \in 1..Len(states) :
                                                          LocalPair(states[k]) = p } }
               IN  rank <= Cardinality(cands) =>
                      /\ devices[i].id \in DOMAIN call.result
                      /\ call.result[devices[i].id] = KthLowest(cands, rank)

\* the scenario A(24/22), B(26/25) against the local states 1(24/22) and
\* 2(26/25), reported in the order 2, 1: the map is {A: 1, B: 2}
C13_Witness ==
    /\ call.fn = "_build_addr_mapping"
    /\ Len(call.arg.devices) = 2 /\ Len(call.arg.local_states) = 2
    /\ call.arg.devices[1].id = "A" /\ CloudPair(call.arg.devices[1]) = <<"24", "22">>
    /\ call.arg.devices[2].id = "B" /\ CloudPair(call.arg.devices[2]) = <<"26", "25">>
    /\ call.arg.local_states[1].addr = 2
    /\ LocalPair(call.arg.local_states[1]) = <<"26", "25">>
    /\ call.arg.local_states[2].addr = 1
    /\ LocalPair(call.arg.local_states[2]) = <<"24", "22">>
    /\ call.result = [A |-> 1, B |-> 2]

\* C14: a second run of the reconciliation on the same cloud list and the
\* same local list leaves the AddressMap of the first run as it is.
C14_ReconcileTwice ==
    [][ call'.fn = "_build_addr_mapping twice" => call'.result = call.result ]_vars

\* the reconciliation has run twice on lists that the positional pass had
\* to pair, with a local state left over
C14_Witness ==
    /\ call.fn = "_build_addr_mapping twice"
    /\ DOMAIN call.result = {"A", "B"}
    /\ Len(call.arg.local_states) = 3
    /\ \E i \in 1..2 : \A k \in 1..3 :
           CloudPair(call.arg.devices[i]) # LocalPair(call.arg.local_states[k])

\* a record of seven bytes or more has been handed to the decoder
DecodedRecord ==
    call.fn = "parse_hex_status" /\ Len(call.arg.bytes) >= 7

\* C15: for every status record of at least 7 bytes the decoder returns a
\* state whose is_on is true exactly when the mode code in bits 2-4 of byte 3
\* is not 4 (off), whatever the raw power bit (bit 0 of byte 3) is.
C15_PowerFromMode ==
    DecodedRecord =>
        /\ call.result # <<>>
        /\ call.result[1].is_on = ((call.arg.bytes[4] \div 4) % 8 # 4)

\* a record with mode code 4 and the raw power bit set is decoded as off
C15_Witness ==
    /\ DecodedRecord
    /\ call.arg.bytes[4] = 17
    /\ call.result # <<>>
    /\ call.result[1].ac_mode = LOCAL_MODE_OFF
    /\ ~call.result[1].is_on

\* C16: for every value b of byte 6 the decoded measured temperature is b
\* when b < 128 and b - 256 otherwise, a value in -128..127.
C16_SignedTemperature ==
    DecodedRecord =>
        LET b == call.arg.bytes[7]
        IN  /\ call.result # <<>>
            /\ b < 128 => call.result[1].temperature = b
            /\ b >= 128 => call.result[1].temperature = b - 256
            /\ call.result[1].temperature \in (0 - 128)..127

\* byte 6 = 0x80 is decoded as -128 degrees
C16_Witness ==
    /\ DecodedRecord
    /\ call.arg.bytes[7] = 128
    /\ call.result # <<>>
    /\ call.result[1].temperature = 0 - 128

\* C17 as claimed: a tick that starts while a control call is in flight does
\* not poll.
C17_NoPollDuringCall ==
    act.op \in TickStartOps => inflight = {}

\* C17 as amended: the CooldownClock holds the time of the send from the
\* step that issues the control call on, so while a call is in flight the
\* clock is set to the time of the most recent send, and a tick that starts
\* while a call is in flight polls only if 15 seconds or more have passed
\* since then.
C17_CooldownBeforeCall ==
    /\ act.op = "SendStart" => last_command_time = now /\ inflight # {}
    /\ inflight # {} =>
          /\ last_command_time # 0
          /\ last_command_time = hist.last_cmd
    /\ (act.op \in TickStartOps /\ inflight # {}) =>
          now - hist.last_cmd >= COMMAND_COOLDOWN_SECONDS

\* a tick that started 14 seconds into a control call still in flight has
\* been skipped
C17_Witness ==
    /\ act.op = "TickCooldown"
    /\ inflight # {}
    /\ now - hist.last_cmd = 14

\* the base map of a payload for device d: the cached cloud record if there
\* is one, the last published snapshot entry otherwise
PayloadBase(d) ==
    IF d \in DOMAIN cloud_device_cache THEN cloud_device_cache[d]
    ELSE IF d \in DOMAIN data THEN data[d]
    ELSE last_device_data[d]

\* C18: the map a send hands to the control call is the base map of the
\* device with the overrides on top: every field named in the overrides has
\* the override's value, every other field of the base is sent unchanged,
\* nothing else is sent, and building the payload leaves the cloud record
\* cache as it is.
C18_FullRecordPayload ==
    [][ act'.op = "SendStart" =>
           /\ cloud_device_cache' = cloud_device_cache
           /\ \E s \in inflight' :
                 /\ s.id = act'.id /\ s.ov = act'.ov
                 /\ DOMAIN s.state = (DOMAIN PayloadBase(s.id)) \cup (DOMAIN s.ov)
                 /\ \A k \in DOMAIN s.ov : s.state[k] = s.ov[k]
                 /\ \A k \in (DOMAIN PayloadBase(s.id)) \ (DOMAIN s.ov) :
                       s.state[k] = PayloadBase(s.id)[k]
      ]_vars

\* a fan command is in flight whose payload is the cached cloud record of
\* the device with wind replaced, while the published entry of the device
\* (merged from a local poll) differs from the cached record
C18_Witness ==
    /\ act.op = "SendStart" /\ act.ov = [wind |-> WIND_HIGH]
    /\ "A" \in (DOMAIN cloud_device_cache) \cap (DOMAIN data)
    /\ data["A"] # cloud_device_cache["A"]
    /\ \E s \in inflight :
          /\ s.state = Update(cloud_device_cache["A"], [wind |-> WIND_HIGH])
          /\ s.state.name = NameOf("A")
          /\ s.state.wind # cloud_device_cache["A"].wind

\* C19 as claimed: when a send for device d completes, the snapshot entry of
\* d is the merged map that was sent.
C19_OptimisticPublish ==
    act.op = "SendOk" => act.id \in DOMAIN data /\ data[act.id] = act.state

\* C19 as amended: when a send for device d completes and the snapshot is
\* not empty, the snapshot entry of d becomes the merged map that was sent
\* and the entries of all other devices stay as they are; when the snapshot
\* is empty it stays empty; in both cases the entity's own last record of d
\* becomes the merged map.
C19_OptimisticPublishAmended ==
    [][ act'.op = "SendOk" =>
           /\ last_device_data'[act'.id] = act'.state
           /\ IF data # EmptyDict
              THEN /\ DOMAIN data' = (DOMAIN data) \cup {act'.id}
                   /\ data'[act'.id] = act'.state
                   /\ \A d \in (DOMAIN data) \ {act'.id} : data'[d] = data[d]
              ELSE data' = EmptyDict
      ]_vars

\* a heat command to A has completed in a session with two devices: the
\* entry of A is the map that was sent, the entry of B is still there
C19_Witness ==
    /\ act.op = "SendOk" /\ act.id = "A"
    /\ DOMAIN data = {"A", "B"}
    /\ data["A"] = act.state
    /\ data["A"].mode = MODE_HEAT
    /\ data["B"].id = "B"

\* the steps of a send
SendOps == {"SendStart", "SendOk", "SendFailed"}

LocalFields == {"power", "mode", "setTemp", "wind", "factTemp", "swing"}

\* the conversion of every state the gateway can report
ConvertedStates == [s \in LocalStates |-> to_cloud_format(s)]

\* C21: when a tick of the local path publishes, the entry of every mapped
\* identifier whose address is in the local fetch is the cached cloud record
\* with the six local fields replaced by the converted local state (and then
\* the stored overrides laid over mode and wind), every other cached field is
\* kept, and the cloud record cache is left as it is.
C21_LocalMerge ==
    [][ act'.op = "TickLocalDone" =>
           /\ cloud_device_cache' = cloud_device_cache
           /\ \A d \in DOMAIN id_to_addr :
                 id_to_addr[d] \in DOMAIN act'.fetched =>
                    LET cached == cloud_device_cache[d]
                        local == ConvertedStates[act'.fetched[id_to_addr[d]]]
                        ov == Get(ha_overrides, d, EmptyDict)
                    IN  /\ d \in DOMAIN data'
                        /\ DOMAIN data'[d] = (DOMAIN cached) \cup LocalFields
                        /\ \A k \in (DOMAIN cached) \ LocalFields :
                              data'[d][k] = cached[k]
                        /\ \A k \in LocalFields \ (DOMAIN ov) :
                              data'[d][k] = local[k]
                        /\ \A k \in DOMAIN ov : data'[d][k] = ov[k]
      ]_vars

\* a local poll has published device A from a local state that is off at 26
\* degrees, over a cached record that is on at 24 degrees: the name is the
\* cached one, the six fields are the local ones, the cache is as it was
C21_Witness ==
    /\ act.op = "TickLocalDone"
    /\ "A" \in DOMAIN id_to_addr
    /\ id_to_addr["A"] \in DOMAIN act.fetched
    /\ act.fetched[id_to_addr["A"]].ac_mode = LOCAL_MODE_OFF
    /\ cloud_device_cache["A"].power = POWER_ON
    /\ cloud_device_cache["A"].factTemp = "24"
    /\ data["A"].name = NameOf("A") /\ data["A"].id = "A"
    /\ data["A"].power = POWER_OFF /\ data["A"].factTemp = "26"
    /\ data["A"].setTemp = "25" /\ data["A"].swing = "0"

\* C22: a cloud record the reconciliation left unmapped is cloud-only from
\* then on: it is still published by the later ticks, those of the local
\* path included.
C22_UnmappedStaysPublished ==
    act.op = "TickLocalDone" =>
        \A d \in (DOMAIN cloud_device_cache) \ (DOMAIN id_to_addr) :
            d \in DOMAIN data

\* the smaller of two numbers
Min(a, b) == IF a < b THEN a ELSE b

\* the records of a device list that carry an identifier
WithId(devices) == { k \in 1..Len(devices) : "id" \in DOMAIN devices[k] }

\* C23: the coordinator is ready only after the setup step, which makes one
\* cloud fetch, caches every returned record that has an identifier under it
\* and nothing else, and runs the reconciliation exactly when a local
\* transport is configured (the map then has as many entries as the shorter
\* of the two lists, and none otherwise); a setup whose cloud fetch fails
\* caches nothing, builds no map, publishes nothing and leaves the
\* coordinator failed for good: no step follows it.
C23_Initialisation ==
    /\ phase = "uninit" =>
          act.op = "init" /\ cloud_device_cache = EmptyDict /\ id_to_addr = EmptyDict
    /\ phase = "ready" => act.op \notin {"init", "SetupFails"}
    /\ act.op = "Setup" =>
          LET devices == act.fetched.devices
          IN  /\ phase = "ready"
              /\ DOMAIN cloud_device_cache =
                     { devices[k].id : k \in WithId(devices) }
              /\ \A k \in WithId(devices) :
                     cloud_device_cache[devices[k].id] = devices[k]
              /\ data = cloud_device_cache
              /\ IF local_api
                 THEN Cardinality(DOMAIN id_to_addr) =
                         Min(Cardinality(WithId(devices)),
                             Len(act.fetched.states))
                 ELSE id_to_addr = EmptyDict
    /\ phase = "failed" => act.op = "SetupFails"
    /\ (act.op = "SetupFails" /\ act.id = "error") =>
          /\ phase = "failed"
          /\ cloud_device_cache = EmptyDict /\ id_to_addr = EmptyDict
          /\ data = EmptyDict

\* a setup with a local transport has fetched a list of device A and a
\* record without identifier against two local states: A is cached and
\* mapped, the record without identifier is not cached
C23_Witness ==
    /\ act.op = "Setup" /\ phase = "ready" /\ local_api
    /\ Len(act.fetched.devices) = 2 /\ Len(act.fetched.states) = 2
    /\ DOMAIN cloud_device_cache = {"A"}
    /\ DOMAIN id_to_addr = {"A"}

\* the ways the local fetch can fail: the three the transport swallows and
\* the exception it lets through
LocalFailureKinds == SwallowedKinds \cup {"bad_body"}

\* C24: when the local fetch of the initial reconciliation fails or returns
\* no states (the cloud fetch having succeeded), the setup succeeds with an
\* empty AddressMap, and with an empty AddressMap no tick takes the local
\* path.
C24_EmptyReconciliation ==
    /\ (/\ act.op \in {"Setup", "SetupFails"}
        /\ local_api
        /\ \/ act.id \in LocalFailureKinds
           \/ act.id = "ok" /\ act.fetched.states = <<>>)
          => (phase = "ready" /\ id_to_addr = EmptyDict)
    /\ (act.op \in {"TickStartLocal", "TickLocalDone", "TickLocalRaised"})
          => id_to_addr # EmptyDict

\* C25: once the setup has finished, no step changes the AddressMap: not a
\* tick of any path, a fallback, an update failure, a send or its failure.
C25_AddressMapImmutable ==
    [][ phase # "uninit" => id_to_addr' = id_to_addr ]_vars

\* a tick that fell back from a raised local fetch has ended after a
\* command was issued, and the map built at setup is still there
C25_Witness ==
    /\ act.op = "TickCloudDone" /\ act.id = "fallback"
    /\ hist.last_cmd >= 0
    /\ DOMAIN id_to_addr = {"A", "B"}

\* C26: the conversion of a decoded local state maps the mode codes of cool,
\* heat, dry, fan and auto to the cloud modes of the same name and the fan
\* codes of auto, low, medium, high and off to auto, low, mid, high and
\* auto; power is "y" unless the mode code is off, and then "n"; the mode
\* table has no cloud mode for off, and the converted state of a unit that
\* is off carries the default mode auto, so off shows in the power alone.
C26_FieldMapping ==
    call.fn = "to_cloud_format" =>
        LET s == call.arg
            r == call.result
        IN  /\ s.ac_mode = LOCAL_MODE_COOL => r.mode = "cool"
            /\ s.ac_mode = LOCAL_MODE_HEAT => r.mode = "heat"
            /\ s.ac_mode = LOCAL_MODE_DRY => r.mode = "dry"
            /\ s.ac_mode = LOCAL_MODE_FAN => r.mode = "fan"
            /\ s.ac_mode = LOCAL_MODE_AUTO => r.mode = "auto"
            /\ s.fan_mode = LOCAL_FAN_AUTO => r.wind = "auto"
            /\ s.fan_mode = LOCAL_FAN_LOW => r.wind = "low"
            /\ s.fan_mode = LOCAL_FAN_MEDIUM => r.wind = "mid"
            /\ s.fan_mode = LOCAL_FAN_HIGH => r.wind = "high"
            /\ s.fan_mode = LOCAL_FAN_OFF => r.wind = "auto"
            /\ r.power = IF s.ac_mode = LOCAL_MODE_OFF THEN "n" ELSE "y"
            /\ s.ac_mode = LOCAL_MODE_OFF =>
                  /\ LOCAL_MODE_TO_CLOUD[s.ac_mode] = None
                  /\ r.mode = MODE_AUTO
            /\ r.mode \in {"cool", "heat", "dry", "fan", "auto"}

\* a unit that is off with the fan at medium is converted to power "n",
\* wind "mid" and the default mode
C26_Witness ==
    /\ call.fn = "to_cloud_format"
    /\ call.arg.ac_mode = LOCAL_MODE_OFF /\ call.arg.fan_mode = LOCAL_FAN_MEDIUM
    /\ call.result.power = POWER_OFF /\ call.result.wind = WIND_MID
    /\ call.result.mode = MODE_AUTO

\* C27: in every reachable state the keys of the published snapshot are
\* cloud identifiers with a record in the cloud record cache, the keys of
\* the AddressMap have a record in the cache too, and the local addresses
\* appear as values of the AddressMap only.
C27_SnapshotKeying ==
    /\ DOMAIN data \subseteq Ids
    /\ DOMAIN data \subseteq DOMAIN cloud_device_cache
    /\ DOMAIN id_to_addr \subseteq DOMAIN cloud_device_cache
    /\ \A d \in DOMAIN id_to_addr : id_to_addr[d] \in Addrs
    /\ \A d \in DOMAIN data : Get(data[d], "id", d) = d

\* a local poll has published device A, which is mapped to address 2, under
\* its cloud identifier
C27_Witness ==
    /\ act.op = "TickLocalDone"
    /\ id_to_addr = [A |-> 2]
    /\ 2 \in DOMAIN act.fetched
    /\ DOMAIN data = {"A"}
    /\ DOMAIN cloud_device_cache = {"A", "B"}

\* C28: in a session whose ticks take the local path, when a completed
\* command has set the mode of device d and a later command to d does not
\* name the mode, the payload of the later command carries the mode the
\* earlier command set.
C28_CumulativeCommands ==
    (/\ act.op = "SendStart"
     /\ local_api /\ id_to_addr # EmptyDict
     /\ act.id \in DOMAIN hist.mode
     /\ "mode" \notin DOMAIN act.ov)
        => \A s \in inflight :
              (s.id = act.id /\ s.ov = act.ov) =>
                  Get(s.state, "mode", None) = hist.mode[act.id]

\* the addresses of a list of local states
AddrsOf(states) == { states[k].addr : k \in 1..Len(states) }

\* C29: for local states with pairwise distinct addresses, the AddressMap
\* the reconciliation builds gives no address to two identifiers, and gives
\* every identifier it maps one address of the local fetch.
C29_AddressMapInjective ==
    call.fn \in {"_build_addr_mapping", "_build_addr_mapping twice"} =>
        /\ Cardinality(AddrsOf(call.arg.local_states)) = Len(call.arg.local_states)
        /\ \A d1, d2 \in DOMAIN call.result :
              d1 # d2 => call.result[d1] # call.result[d2]
        /\ \A d \in DOMAIN call.result :
              call.result[d] \in AddrsOf(call.arg.local_states)

\* two cloud records with the same temperatures against three local states
\* with those temperatures: the records get the addresses 1 and 2
C29_Witness ==
    /\ call.fn = "_build_addr_mapping"
    /\ Len(call.arg.devices) = 2 /\ Len(call.arg.local_states) = 3
    /\ CloudPair(call.arg.devices[1]) = <<"24", "22">>
    /\ CloudPair(call.arg.devices[2]) = <<"24", "22">>
    /\ \A k \in 1..3 : LocalPair(call.arg.local_states[k]) = <<"24", "22">>
    /\ call.result[call.arg.devices[1].id] = 1
    /\ call.result[call.arg.devices[2].id] = 2

\* C30: when a cloud poll has ended, the cloud record cache holds, for every
\* device of the fetched list, the record the cloud returned, with the mode
\* and wind the cloud reported, whatever overrides were laid over the
\* published snapshot.
C30_CacheFidelity ==
    act.op = "TickCloudDone" =>
        \A d \in DOMAIN act.fetched :
            /\ d \in DOMAIN cloud_device_cache
            /\ cloud_device_cache[d] = act.fetched[d]

\* C31: once no further command is issued, a tick that is not in cooldown
\* starts a real poll, and from some point on no tick is skipped while real
\* polls go on; every command and every skipped tick is followed by a real
\* poll.
C31_PollingResumes ==
    /\ <>[](act.op # "SendStart") =>
          /\ <>[](act.op # "TickCooldown")
          /\ (phase = "ready") ~> (act.op \in TickStartOps)
    /\ (act.op \in {"SendStart", "TickCooldown"}) ~> (act.op \in TickStartOps)

\* after a command and a skipped tick the cooldown has run out and a real
\* poll has started
C31_Witness ==
    /\ act.op \in TickStartOps
    /\ last_command_time # 0
    /\ now - last_command_time >= COMMAND_COOLDOWN_SECONDS
    /\ budget = MaxOps

====
